---------------------------- MODULE Spec2Model ----------------------------
(***************************************************************************)
(* Model of the `td` task tracker (src/src/main.rs).                       *)
(*                                                                         *)
(* Strings are sequences of one-character strings, so that byte offsets,   *)
(* substring search, splitting and trimming are computed as the code       *)
(* computes them.  Five specifications share the variables:                *)
(*   SpecCodec    Task::to_string / Task::from_str on bounded tasks;       *)
(*   SpecDecode   Task::from_str on files that lost one character;         *)
(*   SpecLocator  sanitize_dir_name and get_project_path on bounded URLs;  *)
(*   SpecNew      Task::new on bounded command-line arguments;             *)
(*   Spec         invocations of the tool (main, add_task, list_task) as   *)
(*                interleaved processes over one file system.              *)
(***************************************************************************)
EXTENDS Integers, Sequences, FiniteSets, TLC

VARIABLES
    \* SpecCodec
    cphase, task, encoded, content, decoded, reencoded,
    \* SpecLocator
    lphase, origin, sanitized, resolved,
    \* SpecNew
    nphase, addArgs, newTask,
    \* Spec
    pc, cmd, args, homeOk, projectDir, record, wrote, live, concurrent, out, listing, exit,
    dirs, files, writable, clock, nextUuid, lastWriter

codecVars == <<cphase, task, encoded, content, decoded, reencoded>>
locatorVars == <<lphase, origin, sanitized, resolved>>
newVars == <<nphase, addArgs, newTask>>
procVars ==
    <<pc, cmd, args, homeOk, projectDir, record, wrote, live, concurrent, out, listing, exit>>
worldVars == <<dirs, files, writable, clock, nextUuid, lastWriter>>
vars == <<codecVars, locatorVars, newVars, procVars, worldVars>>

---------------------------------------------------------------------------
(* Strings *)

\* Option<T>: None is the empty sequence, Some(x) is <<x>>.
None == <<>>

Some(x) == <<x>>

\* All sequences over S of length at most n.
SeqsUpTo(S, n) == UNION {[1..k -> S] : k \in 0..n}

\* str::starts_with
StartsWith(s, p) == Len(s) >= Len(p) /\ SubSeq(s, 1, Len(p)) = p

\* str::ends_with
EndsWith(s, p) == Len(s) >= Len(p) /\ SubSeq(s, Len(s) - Len(p) + 1, Len(s)) = p

\* s[n..] with a 0-based byte offset n
From(s, n) == SubSeq(s, n + 1, Len(s))

\* The 0-based offsets at which p occurs in s.
Occurrences(s, p) == {i \in 0..(Len(s) - Len(p)) : SubSeq(s, i + 1, i + Len(p)) = p}

\* str::find: Some(first offset) or None.
Find(s, p) ==
    LET occ == Occurrences(s, p)
    IN  IF occ = {} THEN None
        ELSE Some(CHOOSE i \in occ : \A j \in occ : i <= j)

\* str::contains
Contains(s, p) == Occurrences(s, p) # {}

RECURSIVE Concat(_)
\* The concatenation of a sequence of strings.
Concat(ss) == IF ss = <<>> THEN <<>> ELSE Head(ss) \o Concat(Tail(ss))

RECURSIVE SplitOn(_, _)
\* str::split(c) for a single character c: the pieces between the
\* occurrences of c, in order; always at least one piece.
SplitOn(s, c) ==
    LET at == Find(s, <<c>>)
    IN  IF at = None THEN <<s>>
        ELSE <<SubSeq(s, 1, at[1])>> \o SplitOn(From(s, at[1] + 1), c)

---------------------------------------------------------------------------
(* Task Record Codec: Task::to_string, Task::from_str.                     *)
(* serde_yaml is modelled as serde_yaml 0.9 behaves on TaskMetadata: block *)
(* mapping, one `key: value` line per field in declaration order, block    *)
(* sequence items at the key's indentation, plain scalars unless libyaml   *)
(* refuses them (then single-quoted).  Timestamps and UUIDs are bounded    *)
(* values rendered in short fixed formats that keep their single hyphens.  *)

\* enum TaskStatus, with #[serde(rename_all = "lowercase")]
TaskStatus == {"TODO", "DOING", "DONE"}

StatusName(st) ==
    CASE st = "TODO" -> <<"t", "o", "d", "o">>
      [] st = "DOING" -> <<"d", "o", "i", "n", "g">>
      [] st = "DONE" -> <<"d", "o", "n", "e">>

DigitChars == <<"0", "1", "2", "3", "4", "5", "6", "7", "8", "9">>

IsDigit(c) == \E d \in 1..10 : DigitChars[d] = c

DigitValue(c) == (CHOOSE d \in 1..10 : DigitChars[d] = c) - 1

\* DateTime<Utc> as text: a one-digit day of the month, "1970-01-0dZ".
FormatDateTime(t) == <<"1", "9", "7", "0", "-", "0", "1", "-", "0", DigitChars[t + 1], "Z">>

\* Some(t) when the text is a timestamp, else None.
ParseDateTime(s) ==
    IF /\ Len(s) = 11
       /\ SubSeq(s, 1, 9) = <<"1", "9", "7", "0", "-", "0", "1", "-", "0">>
       /\ IsDigit(s[10])
       /\ s[11] = "Z"
    THEN Some(DigitValue(s[10]))
    ELSE None

\* Uuid as text: hyphenated groups of hex digits, here two groups of one.
FormatUuid(u) == <<DigitChars[(u \div 10) + 1], "-", DigitChars[(u % 10) + 1]>>

ParseUuid(s) ==
    IF Len(s) = 3 /\ IsDigit(s[1]) /\ s[2] = "-" /\ IsDigit(s[3])
    THEN Some(10 * DigitValue(s[1]) + DigitValue(s[3]))
    ELSE None

NL == "\n"

\* "---\n"
Delim == <<"-", "-", "-", NL>>

KeyTitle == <<"t", "i", "t", "l", "e">>

KeyStatus == <<"s", "t", "a", "t", "u", "s">>

KeyCreatedAt == <<"c", "r", "e", "a", "t", "e", "d", "_", "a", "t">>

KeyUpdatedAt == <<"u", "p", "d", "a", "t", "e", "d", "_", "a", "t">>

KeyId == <<"i", "d">>

KeyTags == <<"t", "a", "g", "s">>

\* libyaml's analysis of a scalar for the block context: a plain scalar is
\* refused when it is empty, starts or ends with a space, starts with a
\* document marker, with a quote, or with "-" before a space or the end,
\* holds a line break, or holds ":" before a space or the end.
PlainAllowed(s) ==
    /\ s # <<>>
    /\ s[1] # " " /\ s[Len(s)] # " "
    /\ s[1] # "'"
    /\ ~StartsWith(s, <<"-", "-", "-">>)
    /\ ~(s[1] = "-" /\ (Len(s) = 1 \/ s[2] = " "))
    /\ \A i \in 1..Len(s) :
        /\ s[i] # NL
        /\ s[i] = ":" => (i < Len(s) /\ s[i + 1] # " ")

\* The emitter's rendering of a string scalar: plain, or single-quoted with
\* each quote doubled.
EmitScalar(s) ==
    IF PlainAllowed(s) THEN s
    ELSE <<"'">>
            \o Concat([i \in 1..Len(s) |-> IF s[i] = "'" THEN <<"'", "'">> ELSE <<s[i]>>])
            \o <<"'">>

\* One `key: value` line.
EmitEntry(key, value) == key \o <<":", " ">> \o value \o <<NL>>

\* `tags:` and one `- item` line per tag.
EmitTags(tags) ==
    KeyTags \o <<":", NL>>
        \o Concat([i \in 1..Len(tags) |-> <<"-", " ">> \o EmitScalar(tags[i]) \o <<NL>>])

\* serde_yaml::to_string(&TaskMetadata): updated_at is skipped when None,
\* tags when empty.
YamlToString(m) ==
    EmitEntry(KeyTitle, EmitScalar(m.title))
        \o EmitEntry(KeyStatus, StatusName(m.status))
        \o EmitEntry(KeyCreatedAt, FormatDateTime(m.created_at))
        \o (IF m.updated_at = None THEN <<>>
            ELSE EmitEntry(KeyUpdatedAt, FormatDateTime(m.updated_at[1])))
        \o EmitEntry(KeyId, FormatUuid(m.id))
        \o (IF m.tags = <<>> THEN <<>> ELSE EmitTags(m.tags))

\* Task::to_string: "---\n{yaml}---\n{description}"
to_string(t) == Delim \o YamlToString(t.metadata) \o Delim \o t.description

\* A scalar as the parser reads it: Some(text), or None when it is no
\* scalar (an unterminated quote, a nested mapping or sequence).  A string
\* field takes any scalar, the empty one included.
ReadScalar(v) ==
    IF v # <<>> /\ v[1] = "'"
    THEN LET inner == SubSeq(v, 2, Len(v) - 1)
         IN  IF Len(v) >= 2 /\ v[Len(v)] = "'" /\ \A i \in 1..Len(inner) : inner[i] # "'"
             THEN Some(inner)
             ELSE None
    ELSE IF \/ Contains(v, <<":", " ">>)
            \/ EndsWith(v, <<":">>)
            \/ v = <<"-">>
            \/ StartsWith(v, <<"-", " ">>)
         THEN None
         ELSE Some(v)

\* Some(status) for one of the lowercase variant names, else None.
ParseStatus(v) ==
    IF \E st \in TaskStatus : StatusName(st) = v
    THEN Some(CHOOSE st \in TaskStatus : StatusName(st) = v)
    ELSE None

\* The fields read so far; every field an Option.  `open` names the key
\* whose value is a block sequence still being read ("tags", "other") or is
\* "" inside the mapping; `err` records a failure.
NoFields ==
    [title |-> None, status |-> None, created_at |-> None, updated_at |-> None,
     id |-> None, tags |-> None, open |-> "", err |-> FALSE]

Failed(acc) == [acc EXCEPT !.err = TRUE]

\* A `key: value` entry of the mapping.  Known keys are typed by
\* TaskMetadata; a duplicate known key is an error; unknown keys are
\* ignored (the struct does not deny unknown fields).
ReadEntry(acc, key, v) ==
    LET sc == ReadScalar(v)
        closed == [acc EXCEPT !.open = ""]
    IN  IF key = KeyTitle THEN
            IF acc.title # None \/ sc = None THEN Failed(acc)
            ELSE [closed EXCEPT !.title = Some(sc[1])]
        ELSE IF key = KeyStatus THEN
            IF acc.status # None \/ sc = None \/ ParseStatus(Concat(sc)) = None
            THEN Failed(acc)
            ELSE [closed EXCEPT !.status = ParseStatus(sc[1])]
        ELSE IF key = KeyCreatedAt THEN
            IF acc.created_at # None \/ sc = None \/ ParseDateTime(Concat(sc)) = None
            THEN Failed(acc)
            ELSE [closed EXCEPT !.created_at = ParseDateTime(sc[1])]
        ELSE IF key = KeyUpdatedAt THEN
            \* Option<DateTime>: an empty value is None
            IF acc.updated_at # None \/ sc = None THEN Failed(acc)
            ELSE IF sc[1] = <<>> THEN [closed EXCEPT !.updated_at = Some(None)]
            ELSE IF ParseDateTime(sc[1]) = None THEN Failed(acc)
            ELSE [closed EXCEPT !.updated_at = Some(ParseDateTime(sc[1]))]
        ELSE IF key = KeyId THEN
            IF acc.id # None \/ sc = None \/ ParseUuid(Concat(sc)) = None
            THEN Failed(acc)
            ELSE [closed EXCEPT !.id = ParseUuid(sc[1])]
        ELSE IF key = KeyTags THEN
            \* a sequence: `[]`, or items that follow on `- item` lines
            IF acc.tags # None \/ v \notin {<<>>, <<"[", "]">>} THEN Failed(acc)
            ELSE [closed EXCEPT !.tags = Some(<<>>), !.open = IF v = <<>> THEN "tags" ELSE ""]
        ELSE IF sc = None THEN Failed(acc)
        ELSE [closed EXCEPT !.open = IF v = <<>> THEN "other" ELSE ""]

\* A `- item` line: an item of the sequence that is open, if any.
ReadItem(acc, v) ==
    LET sc == ReadScalar(v)
    IN  IF acc.open = "" \/ sc = None THEN Failed(acc)
        ELSE IF acc.open = "other" THEN acc
        ELSE [acc EXCEPT !.tags = Some(acc.tags[1] \o <<sc[1]>>)]

\* One line of the block mapping.
ReadLine(acc, line) ==
    LET colon == Find(line, <<":", " ">>)
    IN  IF acc.err \/ line = <<>> THEN acc
        ELSE IF line = <<"-">> THEN ReadItem(acc, <<>>)
        ELSE IF StartsWith(line, <<"-", " ">>) THEN ReadItem(acc, From(line, 2))
        ELSE IF line[1] \in {"'", "-", " ", ":"} THEN Failed(acc)
        ELSE IF colon # None THEN
            ReadEntry(acc, SubSeq(line, 1, colon[1]), From(line, colon[1] + 2))
        ELSE IF EndsWith(line, <<":">>) THEN
            ReadEntry(acc, SubSeq(line, 1, Len(line) - 1), <<>>)
        ELSE Failed(acc)

RECURSIVE ReadLines(_, _)
ReadLines(acc, lines) ==
    IF lines = <<>> THEN acc ELSE ReadLines(ReadLine(acc, Head(lines)), Tail(lines))

\* serde_yaml::from_str::<TaskMetadata>: Some(metadata) or None on error.
\* title, status, created_at and id are required; updated_at defaults to
\* None and tags (#[serde(default)]) to the empty list.
YamlFromStr(y) ==
    LET acc == ReadLines(NoFields, SplitOn(y, NL))
    IN  IF \/ acc.err
           \/ acc.title = None \/ acc.status = None
           \/ acc.created_at = None \/ acc.id = None
        THEN None
        ELSE Some([title |-> acc.title[1], status |-> acc.status[1],
                   created_at |-> acc.created_at[1],
                   updated_at |-> IF acc.updated_at = None THEN None ELSE acc.updated_at[1],
                   id |-> acc.id[1],
                   tags |-> IF acc.tags = None THEN <<>> ELSE acc.tags[1]])

\* Result<Task>
Err == [ok |-> FALSE]

Ok(t) == [ok |-> TRUE, value |-> t]

\* The offset of the closing delimiter searched by Task::from_str:
\* content[4..].find("---\n")
FindClosing(rest) == Find(rest, Delim)

\* Task::from_str
from_str(c) ==
    IF ~StartsWith(c, Delim) THEN Err
    ELSE LET end_of_frontmatter == FindClosing(From(c, 4))
         IN  IF end_of_frontmatter = None THEN Err
             ELSE LET yaml_str == SubSeq(c, 5, 4 + end_of_frontmatter[1])
                      description == From(c, 4 + end_of_frontmatter[1] + 4)
                      metadata == YamlFromStr(yaml_str)
                  IN  IF metadata = None THEN Err
                      ELSE Ok([metadata |-> metadata[1], description |-> description])

---------------------------------------------------------------------------
(* Task::new *)

\* char::is_whitespace, for the characters of the model
WhiteSpace == {" ", "\t", NL}

RECURSIVE TrimStart(_)
\* str::trim_start
TrimStart(s) == IF s # <<>> /\ Head(s) \in WhiteSpace THEN TrimStart(Tail(s)) ELSE s

RECURSIVE TrimEnd(_)
\* str::trim_end
TrimEnd(s) ==
    IF s # <<>> /\ s[Len(s)] \in WhiteSpace THEN TrimEnd(SubSeq(s, 1, Len(s) - 1)) ELSE s

\* Trim as it would be with trim_start in place of trim.
TrimStartOnly(s) == TrimStart(s)

\* str::trim
Trim(s) == TrimEnd(TrimStart(s))

\* args.tags.map(|s| s.split(',').map(|s| s.trim().to_string()).collect())
\*     .or(Some(Vec::new())).expect(..)
TagsOf(tagsArg) ==
    IF tagsArg = None THEN <<>>
    ELSE LET pieces == SplitOn(tagsArg[1], ",")
         IN  [i \in 1..Len(pieces) |-> Trim(pieces[i])]

\* Task::new(args), with the values Utc::now() and Uuid::new_v4() return.
TaskNew(a, now, uuid) ==
    [metadata |-> [title |-> a.title, status |-> "TODO", created_at |-> now,
                   updated_at |-> None, id |-> uuid, tags |-> TagsOf(a.tags)],
     description |-> IF a.desc = None THEN <<>> ELSE a.desc[1]]

---------------------------------------------------------------------------
(* Project Locator: sanitize_dir_name, get_project_path *)

\* The denylist as it would be without the path separator.
problematic_chars_without_slash ==
    <<"\\", ":", "*", "?", "\"", "<", ">", "|", " ", "@", "#", "$", "%", "^", "&", "+", "=", "~">>

problematic_chars ==
    <<"/", "\\", ":", "*", "?", "\"", "<", ">", "|", " ", "@", "#", "$", "%", "^", "&",
      "+", "=", "~">>

\* str::replace(c, "_") for a character c
ReplaceChar(s, c) == [i \in 1..Len(s) |-> IF s[i] = c THEN "_" ELSE s[i]]

RECURSIVE ReplaceEach(_, _)
\* for &c in problematic_chars.iter() { sanitized = sanitized.replace(c, "_") }
ReplaceEach(s, cs) == IF cs = <<>> THEN s ELSE ReplaceEach(ReplaceChar(s, Head(cs)), Tail(cs))

RECURSIVE TrimLeadingDots(_)
\* TrimDots as it would be with trim_start_matches in place of trim_matches.
TrimLeadingDots(s) == IF s # <<>> /\ Head(s) = "." THEN TrimLeadingDots(Tail(s)) ELSE s

RECURSIVE TrimDots(_)
\* str::trim_matches('.')
TrimDots(s) ==
    IF s # <<>> /\ Head(s) = "." THEN TrimDots(Tail(s))
    ELSE IF s # <<>> /\ s[Len(s)] = "." THEN TrimDots(SubSeq(s, 1, Len(s) - 1))
    ELSE s

RECURSIVE ReplaceDotDot(_)
\* str::replace("..", "_"): the non-overlapping occurrences, left to right
ReplaceDotDot(s) ==
    LET at == Find(s, <<".", ".">>)
    IN  IF at = None THEN s
        ELSE SubSeq(s, 1, at[1]) \o <<"_">> \o ReplaceDotDot(From(s, at[1] + 2))

sanitize_dir_name(url) == ReplaceDotDot(TrimDots(ReplaceEach(url, problematic_chars)))

\* get_repo_remote, given what repository discovery found: the URL of the
\* remote "origin" (Some) or nothing (None: no repository, no such remote,
\* no URL).
get_repo_remote(found) == IF found = None THEN None ELSE Some(sanitize_dir_name(found[1]))

\* PathBuf::push on Unix: an absolute argument replaces the path; otherwise
\* it is appended after a separator, added unless the path ends with one.
Push(path, arg) ==
    IF arg # <<>> /\ arg[1] = "/" THEN arg
    ELSE IF path = <<>> \/ path[Len(path)] = "/" THEN path \o arg
    ELSE path \o <<"/">> \o arg

\* dirs::home_dir()
Home == <<"/", "h">>

TdName == <<".", "t", "d">>

\* The path get_project_path builds, before create_dir_all.
ProjectPath(home, found) ==
    LET td == Push(Push(<<>>, home), TdName)
        seg == get_repo_remote(found)
    IN  IF seg = None THEN td ELSE Push(td, seg[1])

RECURSIVE Walk(_, _)
\* Path resolution by the file system: "" and "." name the directory
\* itself, ".." its parent (the root is its own parent).
Walk(at, names) ==
    IF names = <<>> THEN at
    ELSE LET n == Head(names)
             to == IF n = <<>> \/ n = <<".">> THEN at
                   ELSE IF n = <<".", ".">> THEN SubSeq(at, 1, Len(at) - 1)
                   ELSE Append(at, n)
         IN  Walk(to, Tail(names))

\* The directory an absolute path names: its components from the root.
Resolve(path) == Walk(<<>>, SplitOn(path, "/"))

---------------------------------------------------------------------------
(* Bounds of the codec specifications *)

\* Characters of titles and tags: a letter and the hyphen of the delimiter.
TitleChars == {"a", "-"}

\* Characters of descriptions: the characters of the delimiter.
DescChars == {"-", NL}

MaxTitleLen == 4

MaxTagLen == 1

MaxTags == 1

MaxDescLen == 4

\* Length bounds of the tasks whose files are damaged.
MaxDamagedTitleLen == 1

MaxDamagedDescLen == 1

CodecTimes == {1}

CodecUuids == {7, 42}

TasksOf(titleLen, descLen) ==
    [metadata : [title : SeqsUpTo(TitleChars, titleLen),
                 status : TaskStatus,
                 created_at : CodecTimes,
                 updated_at : {None} \cup {Some(t + 1) : t \in CodecTimes},
                 id : CodecUuids,
                 tags : SeqsUpTo(SeqsUpTo(TitleChars, MaxTagLen), MaxTags)],
     description : SeqsUpTo(DescChars, descLen)]

\* s without its i-th character
DeleteAt(s, i) == SubSeq(s, 1, i - 1) \o SubSeq(s, i + 1, Len(s))

---------------------------------------------------------------------------
(* SpecCodec, SpecDecode: the codec applied to bounded tasks *)

\* Task::to_string of the task in memory; the file holds the result.
Encode ==
    /\ cphase = "task"
    /\ encoded' = to_string(task)
    /\ content' = encoded'
    /\ cphase' = "encoded"
    /\ UNCHANGED <<task, decoded, reencoded, locatorVars, newVars, procVars, worldVars>>

\* The file loses one character before it is read back.
Damage ==
    /\ cphase = "encoded"
    /\ \E i \in 1..Len(encoded) : content' = DeleteAt(encoded, i)
    /\ cphase' = "damaged"
    /\ UNCHANGED <<task, encoded, decoded, reencoded, locatorVars, newVars, procVars, worldVars>>

\* Task::from_str of the file's content.
Decode ==
    /\ cphase \in {"encoded", "damaged"}
    /\ decoded' = Some(from_str(content))
    /\ cphase' = IF decoded'[1].ok THEN "decoded" ELSE "rejected"
    /\ UNCHANGED <<task, encoded, content, reencoded, locatorVars, newVars, procVars, worldVars>>

\* Task::to_string of the decoded task.
Reencode ==
    /\ cphase = "decoded"
    /\ reencoded' = Some(to_string(decoded[1].value))
    /\ cphase' = "reencoded"
    /\ UNCHANGED <<task, encoded, content, decoded, locatorVars, newVars, procVars, worldVars>>

---------------------------------------------------------------------------
(* Bounds of the locator and Task::new specifications *)

\* Characters of URLs: two of the denylist, the dot, a letter.
UrlChars == {"/", ":", ".", "a"}

MaxUrlLen == 5

\* Characters of the --tags argument.
TagArgChars == {"a", "b", ",", " "}

MaxTagArgLen == 4

\* The argument of the documented example: "a, b ,c"
ExampleTags == <<"a", ",", " ", "b", " ", ",", "c">>

---------------------------------------------------------------------------
(* Idle values of each group of variables *)

NoTask ==
    [metadata |-> [title |-> <<>>, status |-> "TODO", created_at |-> 0,
                   updated_at |-> None, id |-> 0, tags |-> <<>>],
     description |-> <<>>]

IdleCodec ==
    /\ cphase = "idle" /\ task = NoTask /\ encoded = <<>> /\ content = <<>>
    /\ decoded = None /\ reencoded = None

IdleLocator == lphase = "idle" /\ origin = None /\ sanitized = None /\ resolved = None

IdleNew == nphase = "idle" /\ addArgs = None /\ newTask = None


---------------------------------------------------------------------------
(* SpecLocator: the locator applied to bounded URLs *)

\* sanitize_dir_name(url), as get_repo_remote calls it
Sanitize ==
    /\ lphase = "found"
    /\ origin # None
    /\ sanitized' = Some(sanitize_dir_name(origin[1]))
    /\ lphase' = "sanitized"
    /\ UNCHANGED <<origin, resolved, codecVars, newVars, procVars, worldVars>>

\* get_project_path: the path handed to create_dir_all
ResolvePath ==
    /\ lphase = IF origin = None THEN "found" ELSE "sanitized"
    /\ resolved' = Some(ProjectPath(Home, origin))
    /\ lphase' = "resolved"
    /\ UNCHANGED <<origin, sanitized, codecVars, newVars, procVars, worldVars>>

---------------------------------------------------------------------------
(* SpecNew: Task::new applied to bounded arguments *)

New ==
    /\ nphase = "args"
    /\ newTask' = Some(TaskNew(addArgs[1], 1, 1))
    /\ nphase' = "new"
    /\ UNCHANGED <<addArgs, codecVars, locatorVars, procVars, worldVars>>

---------------------------------------------------------------------------
(* Spec: invocations of the tool over one file system *)

\* The invocations, numbered in the order they start.
MaxProcs == 2

Procs == 1..MaxProcs

\* Cli.command: None, Some(Add(args)), Some(Ls)
Commands == {"none", "add", "ls"}

\* Titles given to add; their records differ in length.
AddTitles == {<<"a">>, <<"a", "a">>}

AddArgsSet == [title : AddTitles, desc : {None}, tags : {None}]

NoArgs == [title |-> <<>>, desc |-> None, tags |-> None]

\* What repository discovery finds: nothing, or the URL of "origin".
RepoRemotes == {None, Some(<<"g", ":", "r">>)}

\* project_dir.push("test_file.td")
TaskFileName == <<"t", "e", "s", "t", "_", "f", "i", "l", "e", ".", "t", "d">>

\* exit status of a Rust process that panicked
PanicCode == 101

\* A directory and its ancestors.
Ancestors(d) == {SubSeq(d, 1, k) : k \in 0..Len(d)}

IdleProcs ==
    /\ pc = [p \in Procs |-> "idle"]
    /\ cmd = [p \in Procs |-> "none"]
    /\ args = [p \in Procs |-> NoArgs]
    /\ homeOk = [p \in Procs |-> TRUE]
    /\ projectDir = [p \in Procs |-> None]
    /\ record = [p \in Procs |-> None]
    /\ wrote = [p \in Procs |-> None]
    /\ live = [p \in Procs |-> 0]
    /\ concurrent = [p \in Procs |-> {}]
    /\ out = [p \in Procs |-> <<>>]
    /\ listing = [p \in Procs |-> None]
    /\ exit = [p \in Procs |-> None]

IdleWorld ==
    /\ dirs = {<<>>, Resolve(Home)}
    /\ files = <<>>
    /\ writable = TRUE
    /\ clock = 1
    /\ nextUuid = 1
    /\ lastWriter = <<>>

\* The process ends: by returning from main (code 0) or by a panic.
Exits(p, code) == pc' = [pc EXCEPT ![p] = "done"] /\ exit' = [exit EXCEPT ![p] = Some(code)]

\* create_td_home as it would be with the result of fs::create_dir
\* propagated (`fs::create_dir(&td_dir_path)?`).
create_td_home_propagating(home_ok, ds, w) ==
    LET td_dir_path == Resolve(Push(Home, TdName))
    IN  IF ~home_ok \/ (td_dir_path \notin ds /\ ~w) THEN [ok |-> FALSE, dirs |-> ds]
        ELSE [ok |-> TRUE, dirs |-> ds \cup {td_dir_path}]

\* create_td_home: Err when there is no home directory; otherwise creates
\* <home>/.td when it is missing, ignoring the result of fs::create_dir.
create_td_home(home_ok, ds, w) ==
    LET td_dir_path == Resolve(Push(Home, TdName))
    IN  IF ~home_ok THEN [ok |-> FALSE, dirs |-> ds]
        ELSE [ok |-> TRUE,
              dirs |-> IF td_dir_path \notin ds /\ w THEN ds \cup {td_dir_path} ELSE ds]

\* main, to the dispatch on the subcommand.  The invocation starts with its
\* command line and environment; those started earlier and still running
\* are recorded.
Main(p) ==
    /\ pc[p] = "idle"
    /\ \A q \in Procs : q < p => pc[q] # "idle"
    /\ \E c \in Commands, a \in AddArgsSet, h \in BOOLEAN :
        LET td == create_td_home(h, dirs, writable)
        IN  /\ cmd' = [cmd EXCEPT ![p] = c]
            /\ args' = [args EXCEPT ![p] = IF c = "add" THEN a ELSE NoArgs]
            /\ c # "add" => a = CHOOSE x \in AddArgsSet : TRUE
            /\ homeOk' = [homeOk EXCEPT ![p] = h]
            /\ concurrent' = [concurrent EXCEPT ![p] = {q \in Procs : pc[q] \notin {"idle", "done"}}]
            /\ dirs' = td.dirs
            /\ IF ~td.ok THEN
                    \* create_td_home().unwrap() panics
                    /\ Exits(p, PanicCode)
                    /\ out' = out
               ELSE IF c = "none" THEN
                    /\ Exits(p, 0)
                    /\ out' = [out EXCEPT ![p] = <<"No command provided. Use --help for more information.">>]
               ELSE /\ pc' = [pc EXCEPT ![p] = c]
                    /\ exit' = exit
                    /\ out' = [out EXCEPT ![p] = <<IF c = "add" THEN "add command" ELSE "ls command">>]
    /\ UNCHANGED <<projectDir, record, wrote, live, listing>>
    /\ UNCHANGED <<files, writable, clock, nextUuid, lastWriter>>
    /\ UNCHANGED <<codecVars, locatorVars, newVars>>

\* get_project_path, as add_task and list_task call it (after printing
\* "add" or "ls"), unwrapping the result.
GetProjectPath(p) ==
    /\ pc[p] \in {"add", "ls"}
    /\ out' = [out EXCEPT ![p] = Append(@, pc[p])]
    /\ \E found \in RepoRemotes :
        LET path == ProjectPath(Home, found)
            dir == Resolve(path)
        IN  IF ~homeOk[p] \/ (dir \notin dirs /\ ~writable) THEN
                \* home_dir() is None, or create_dir_all fails
                /\ Exits(p, PanicCode)
                /\ UNCHANGED <<projectDir, dirs>>
            ELSE
                /\ dirs' = dirs \cup Ancestors(dir)
                /\ projectDir' = [projectDir EXCEPT ![p] = Some(path)]
                /\ pc' = [pc EXCEPT ![p] = IF pc[p] = "add" THEN "create" ELSE "read_dir"]
                /\ exit' = exit
    /\ UNCHANGED <<cmd, args, homeOk, record, wrote, live, concurrent, listing>>
    /\ UNCHANGED <<files, writable, clock, nextUuid, lastWriter>>
    /\ UNCHANGED <<codecVars, locatorVars, newVars>>

\* The file add_task writes: project_dir.push("test_file.td")
TaskFile(p) == Resolve(Push(projectDir[p][1], TaskFileName))

\* Created as it would be if the file were opened without truncation.
CreatedWithoutTruncate(old) == old

\* The content of a file that File::create has opened: it creates the file
\* or truncates the one that exists.
Created(old) == <<>>

\* std::fs::File::create(project_dir).unwrap()
CreateFile(p) ==
    /\ pc[p] = "create"
    /\ LET f == TaskFile(p)
       IN  IF ~writable THEN
                /\ Exits(p, PanicCode)
                /\ UNCHANGED <<files, lastWriter, live>>
           ELSE
                /\ files' = [g \in DOMAIN files \cup {f} |->
                                IF g = f THEN Created(IF f \in DOMAIN files THEN files[f] ELSE <<>>)
                                ELSE files[g]]
                /\ lastWriter' = [g \in DOMAIN files \cup {f} |->
                                    IF g \in DOMAIN lastWriter THEN lastWriter[g] ELSE 0]
                \* the bytes written to the file before are gone
                /\ live' = [q \in Procs |->
                                IF projectDir[q] # None /\ TaskFile(q) = f THEN 0 ELSE live[q]]
                /\ pc' = [pc EXCEPT ![p] = "write"]
                /\ exit' = exit
    /\ UNCHANGED <<cmd, args, homeOk, projectDir, record, wrote, concurrent, out, listing>>
    /\ UNCHANGED <<dirs, writable, clock, nextUuid>>
    /\ UNCHANGED <<codecVars, locatorVars, newVars>>

\* What one call of Write::write may return for a buffer of len bytes:
\* Err (nothing written), or Ok(n) with n bytes written, n <= len.
WriteResults(len) ==
    {[ok |-> FALSE, n |-> 0]} \cup {[ok |-> TRUE, n |-> k] : k \in {1, len \div 2, len}}

\* WriteAt as it would be with the file opened for appending.
WriteAtEnd(old, buf, n) == old \o SubSeq(buf, 1, n)

\* The content of a file after n bytes of buf are written at the start,
\* where a handle just opened by File::create stands.
WriteAt(old, buf, n) == SubSeq(buf, 1, n) \o SubSeq(old, n + 1, Len(old))

\* let _ = task_file.write(Task::new(args).to_string().unwrap().as_bytes());
\* then add_task and main return.
WriteFile(p) ==
    /\ pc[p] = "write"
    /\ LET f == TaskFile(p)
           buf == to_string(TaskNew(args[p], clock, nextUuid))
       IN  /\ record' = [record EXCEPT ![p] = Some(buf)]
           /\ \E r \in WriteResults(Len(buf)) :
                /\ wrote' = [wrote EXCEPT ![p] = Some(r)]
                /\ files' = [files EXCEPT ![f] = WriteAt(@, buf, r.n)]
                /\ live' = [live EXCEPT ![p] = r.n]
           /\ lastWriter' = [lastWriter EXCEPT ![f] = p]
    /\ clock' = clock + 1
    /\ nextUuid' = nextUuid + 1
    /\ Exits(p, 0)
    /\ UNCHANGED <<cmd, args, homeOk, projectDir, concurrent, out, listing>>
    /\ UNCHANGED <<dirs, writable>>
    /\ UNCHANGED <<codecVars, locatorVars, newVars>>

\* The names fs::read_dir yields for a directory: its files and its
\* subdirectories.
Entries(d) ==
    {x[Len(x)] : x \in {y \in (DOMAIN files) \cup dirs : Len(y) = Len(d) + 1 /\ SubSeq(y, 1, Len(d)) = d}}

\* list_task, after get_project_path: prints the directory and the name of
\* each entry, then returns.
ReadDir(p) ==
    /\ pc[p] = "read_dir"
    /\ out' = [out EXCEPT ![p] = Append(@, "project dir:")]
    /\ listing' = [listing EXCEPT ![p] = Some(Entries(Resolve(projectDir[p][1])))]
    /\ Exits(p, 0)
    /\ UNCHANGED <<cmd, args, homeOk, projectDir, record, wrote, live, concurrent>>
    /\ UNCHANGED worldVars
    /\ UNCHANGED <<codecVars, locatorVars, newVars>>

---------------------------------------------------------------------------
(* The specifications *)

Init ==
    /\ IdleCodec /\ IdleLocator /\ IdleNew /\ IdleProcs
    /\ dirs \in {{<<>>, Resolve(Home)}, {<<>>, Resolve(Home), Resolve(Push(Home, TdName))}}
    /\ writable \in BOOLEAN
    /\ files = <<>>
    /\ clock = 1
    /\ nextUuid = 1
    /\ lastWriter = <<>>

Next ==
    \E p \in Procs :
        \/ Main(p)
        \/ GetProjectPath(p)
        \/ CreateFile(p)
        \/ WriteFile(p)
        \/ ReadDir(p)

Spec == Init /\ [][Next]_vars

InitCodec ==
    /\ cphase = "task"
    /\ task \in TasksOf(MaxTitleLen, MaxDescLen)
    /\ encoded = <<>> /\ content = <<>> /\ decoded = None /\ reencoded = None
    /\ IdleLocator /\ IdleNew /\ IdleProcs /\ IdleWorld

NextCodec == Encode \/ Decode \/ Reencode

SpecCodec == InitCodec /\ [][NextCodec]_vars

InitDecode ==
    /\ cphase = "task"
    /\ task \in TasksOf(MaxDamagedTitleLen, MaxDamagedDescLen)
    /\ encoded = <<>> /\ content = <<>> /\ decoded = None /\ reencoded = None
    /\ IdleLocator /\ IdleNew /\ IdleProcs /\ IdleWorld

NextDecode == Encode \/ Damage \/ Decode \/ Reencode

SpecDecode == InitDecode /\ [][NextDecode]_vars

InitLocator ==
    /\ lphase = "found"
    /\ origin \in {None} \cup {Some(u) : u \in SeqsUpTo(UrlChars, MaxUrlLen)}
    /\ sanitized = None /\ resolved = None
    /\ IdleCodec /\ IdleNew /\ IdleProcs /\ IdleWorld

NextLocator == Sanitize \/ ResolvePath

SpecLocator == InitLocator /\ [][NextLocator]_vars

InitNew ==
    /\ nphase = "args"
    /\ addArgs \in {Some(a) : a \in [title : {<<"a">>},
                                     desc : {None, Some(<<"d">>)},
                                     tags : {None} \cup {Some(t) : t \in SeqsUpTo(TagArgChars, MaxTagArgLen) \cup {ExampleTags}}]}
    /\ newTask = None
    /\ IdleCodec /\ IdleLocator /\ IdleProcs /\ IdleWorld

NextNew == New

SpecNew == InitNew /\ [][NextNew]_vars

---------------------------------------------------------------------------
(* Properties of the codec *)

\* C1: decoding the encoding of a task succeeds and yields the task, equal
\* in every field.
RoundTripDecodeOfEncode ==
    cphase \in {"decoded", "rejected", "reencoded"} => decoded = Some(Ok(task))

\* C4: a string produced by Task::to_string decodes, and encoding the
\* result gives the string back.
RoundTripEncodeOfDecode ==
    /\ cphase # "rejected"
    /\ cphase = "reencoded" => reencoded = Some(encoded)

\* The content begins with a delimiter line and holds, after it, a closing
\* delimiter that is a whole line.
WellDelimited(c) ==
    /\ StartsWith(c, Delim)
    /\ \E i \in 4..(Len(c) - 4) : c[i] = NL /\ SubSeq(c, i + 1, i + 4) = Delim

\* C3: Task::from_str succeeds only on well-delimited content.
DecodeOnlyWellDelimited == cphase \in {"decoded", "reencoded"} => WellDelimited(content)

---------------------------------------------------------------------------
(* Properties of the locator *)

\* The characters the sanitizer is to remove.
Denylist ==
    {"/", "\\", ":", "*", "?", "\"", "<", ">", "|", " ", "@", "#", "$", "%", "^", "&", "+",
     "=", "~"}

\* C2: the sanitized string holds no denylisted character, neither begins
\* nor ends with a dot, and holds no "..".
SanitizerPostcondition ==
    sanitized # None =>
        LET s == sanitized[1]
        IN  /\ \A i \in 1..Len(s) : s[i] \notin Denylist
            /\ s # <<>> => (s[1] # "." /\ s[Len(s)] # ".")
            /\ \A i \in 1..(Len(s) - 1) : ~(s[i] = "." /\ s[i + 1] = ".")

\* C2's case: "/..a" is sanitized to "__a".
SanitizerWitness ==
    /\ origin = Some(<<"/", ".", ".", "a">>)
    /\ sanitized = Some(<<"_", "_", "a">>)

\* C10: the resolved directory is <home>/.td or a direct child of it; the
\* sanitized segment holds no separator, is not "." or "..", and is not
\* absolute.
StorageContainment ==
    resolved # None =>
        LET td == Resolve(Push(Home, TdName))
            dir == Resolve(resolved[1])
        IN  /\ \/ dir = td
               \/ Len(dir) = Len(td) + 1 /\ SubSeq(dir, 1, Len(td)) = td
            /\ StartsWith(resolved[1], Push(Home, TdName))
            /\ sanitized # None =>
                /\ \A i \in 1..Len(sanitized[1]) : sanitized[1][i] # "/"
                /\ sanitized[1] \notin {<<".">>, <<".", ".">>}

\* C10's case: the URL "/../a" resolves to the child "___a" of <home>/.td.
StorageContainmentWitness ==
    /\ origin = Some(<<"/", ".", ".", "/", "a">>)
    /\ resolved # None
    /\ Resolve(resolved[1]) = <<<<"h">>, <<".", "t", "d">>, <<"_", "_", "_", "a">>>>

---------------------------------------------------------------------------
(* Properties of Task::new *)

CommaPositions(s) == {i \in 1..Len(s) : s[i] = ","}

\* The position of the j-th comma of s.
NthComma(s, j) ==
    CHOOSE i \in CommaPositions(s) : Cardinality({c \in CommaPositions(s) : c <= i}) = j

\* The j-th of the pieces between the commas of s.
Piece(s, j) ==
    LET k == Cardinality(CommaPositions(s))
        lo == IF j = 1 THEN 1 ELSE NthComma(s, j - 1) + 1
        hi == IF j = k + 1 THEN Len(s) ELSE NthComma(s, j) - 1
    IN  SubSeq(s, lo, hi)

\* t is piece without the whitespace around it.
IsTrimmed(t, piece) ==
    \E a, b \in 0..Len(piece) :
        /\ a + b <= Len(piece)
        /\ t = SubSeq(piece, a + 1, Len(piece) - b)
        /\ \A i \in 1..a : piece[i] \in WhiteSpace
        /\ \A i \in (Len(piece) - b + 1)..Len(piece) : piece[i] \in WhiteSpace
        /\ t # <<>> => (t[1] \notin WhiteSpace /\ t[Len(t)] \notin WhiteSpace)

\* C8: with --tags, the tags are the pieces between the commas, in order,
\* each trimmed ("a, b ,c" gives a, b, c); without it, there are none.
TagDerivation ==
    newTask # None =>
        LET given == addArgs[1].tags
            tags == newTask[1].metadata.tags
        IN  /\ given = None => tags = <<>>
            /\ given # None =>
                /\ Len(tags) = Cardinality(CommaPositions(given[1])) + 1
                /\ \A j \in 1..Len(tags) : IsTrimmed(tags[j], Piece(given[1], j))
            /\ given = Some(ExampleTags) => tags = <<<<"a">>, <<"b">>, <<"c">>>>

\* C8's case: the example argument has been split and trimmed.
TagDerivationWitness ==
    /\ newTask # None
    /\ addArgs[1].tags = Some(ExampleTags)
    /\ Len(newTask[1].metadata.tags) = 3

---------------------------------------------------------------------------
(* Properties of the invocations *)

Done(p) == pc[p] = "done"

UsageHint == <<"No command provided. Use --help for more information.">>

\* The write of add wrote the whole record.
FullWrite(p) == wrote[p] # None /\ wrote[p][1].ok /\ wrote[p][1].n = Len(record[p][1])

\* The bytes the write of add put into the file.
Written(p) == SubSeq(record[p][1], 1, wrote[p][1].n)

\* C5: add does not finish normally when the write of the task bytes
\* failed or did not complete.
WriteFailureAbortsAdd ==
    \A p \in Procs : (cmd[p] = "add" /\ Done(p) /\ exit[p] = Some(0)) => FullWrite(p)

\* Invocation p has created or truncated the file f.
Touched(p, f) ==
    /\ cmd[p] = "add" /\ projectDir[p] # None /\ TaskFile(p) = f
    /\ pc[p] = "write" \/ wrote[p] # None

\* p and q are two add invocations that ran at the same time on the same
\* task file, have both passed their create-file and write-bytes steps, q
\* writing second, and no other invocation has touched the file.
RacedAdds(p, q) ==
    /\ p # q
    /\ p \in concurrent[q] \/ q \in concurrent[p]
    /\ Done(p) /\ Done(q)
    /\ wrote[p] # None /\ wrote[q] # None
    /\ TaskFile(p) = TaskFile(q)
    /\ lastWriter[TaskFile(q)] = q
    /\ \A r \in Procs \ {p, q} : ~Touched(r, TaskFile(q))

\* C6 as stated: of two simultaneous adds whose writes completed, neither
\* fails and the file holds exactly the record of the one that wrote second.
RacedAddsSecondReplacesFirst ==
    \A p, q \in Procs :
        (RacedAdds(p, q) /\ FullWrite(p) /\ FullWrite(q)) =>
            /\ exit[p] = Some(0) /\ exit[q] = Some(0)
            /\ files[TaskFile(q)] = record[q][1]

\* C6 as amended: the file begins with the bytes the second writer wrote;
\* after them it keeps the first writer's bytes beyond that length, unless
\* the second's create-file step came after the first's write.
RacedAddsSecondOverlaysFirst ==
    \A p, q \in Procs :
        RacedAdds(p, q) =>
            /\ exit[p] = Some(0) /\ exit[q] = Some(0)
            /\ files[TaskFile(q)] =
                Written(q) \o (IF live[p] > Len(Written(q))
                               THEN SubSeq(Written(p), Len(Written(q)) + 1, Len(Written(p)))
                               ELSE <<>>)

\* C6's case: both writes completed and the first writer's tail remains.
RacedAddsWitness ==
    \E p, q \in Procs :
        /\ RacedAdds(p, q) /\ FullWrite(p) /\ FullWrite(q)
        /\ Len(files[TaskFile(q)]) > Len(record[q][1])

\* C7 as stated: with no subcommand the tool prints the usage hint and
\* exits with code 0, whatever the environment.
NoCommandAlwaysPrintsUsage ==
    \A p \in Procs : (Done(p) /\ cmd[p] = "none") => (exit[p] = Some(0) /\ out[p] = UsageHint)

\* C7 as amended: with no subcommand the tool prints the usage hint and
\* exits with code 0 when the home directory is resolvable, whether or not
\* .td can be created; when it is not resolvable the tool panics before it
\* prints anything.
NoCommandPrintsUsageGivenHome ==
    \A p \in Procs :
        (Done(p) /\ cmd[p] = "none") =>
            IF homeOk[p] THEN exit[p] = Some(0) /\ out[p] = UsageHint
            ELSE exit[p] = Some(PanicCode) /\ out[p] = <<>>

\* C7's case: no subcommand, .td missing and not creatable.
NoCommandWitness ==
    \E p \in Procs :
        /\ Done(p) /\ cmd[p] = "none" /\ homeOk[p] /\ exit[p] = Some(0)
        /\ ~writable /\ Resolve(Push(Home, TdName)) \notin dirs

\* The add invocations that resolved the project directory d.
AddsIn(d) == {p \in Procs : cmd[p] = "add" /\ projectDir[p] # None /\ Resolve(projectDir[p][1]) = d}

\* The adds in d so far were successful and ran one after the other.
SequentialAdds(d) ==
    /\ AddsIn(d) # {}
    /\ \A p \in AddsIn(d) :
        /\ Done(p) /\ exit[p] = Some(0) /\ FullWrite(p)
        /\ concurrent[p] \cap AddsIn(d) = {}

\* The most recent add in d (invocations are numbered as they start).
LastAdd(d) == CHOOSE p \in AddsIn(d) : \A q \in AddsIn(d) : q <= p

\* The files directly in d.
FilesIn(d) == {f \in DOMAIN files : Len(f) = Len(d) + 1 /\ SubSeq(f, 1, Len(d)) = d}

\* C9: after successful sequential adds in a project directory, it holds
\* one file, test_file.td, whose content is the record of the last add.
SequentialAddsKeepOnlyLast ==
    \A d \in dirs :
        SequentialAdds(d) =>
            /\ FilesIn(d) = {Append(d, TaskFileName)}
            /\ files[Append(d, TaskFileName)] = record[LastAdd(d)][1]

\* C9's case: two adds in a row, the first with the longer record.
SequentialAddsWitness ==
    \E d \in dirs :
        /\ SequentialAdds(d)
        /\ \E p \in AddsIn(d) : p # LastAdd(d) /\ Len(record[p][1]) > Len(record[LastAdd(d)][1])

===========================================================================
